---- MODULE Spec2Model ----
(***************************************************************************)
(* A model of the language-server engine's response envelope               *)
(* (compiler-core/src/language_server/engine.rs) and of the git package    *)
(* downloader (compiler-core/src/git.rs).                                  *)
(***************************************************************************)
EXTENDS Integers, Sequences, FiniteSets, TLC

\* Number of requests one engine answers in a checked run.
MaxRequests == 3

(***************************************************************************)
(* Values                                                                  *)
(***************************************************************************)

\* Result<T, Error>
Ok(v) == [tag |-> "Ok", value |-> v]

Err(e) == [tag |-> "Err", value |-> e]

\* The engine value that does not exist (before `new`, or when `new` failed).
NoEngine == [tag |-> "NoEngine"]

NoCall == [tag |-> "NoCall"]

NoResponse == [tag |-> "NoResponse"]

\* enum Compilation { Yes(Vec<Utf8PathBuf>), No }
CompilationYes(modules) == [tag |-> "Yes", modules |-> modules]

CompilationNo == [tag |-> "No", modules |-> << >>]

\* struct Response<T> { result, warnings, compilation }
Response(result, warnings, compilation) ==
    [result |-> result, warnings |-> warnings, compilation |-> compilation]

\* The module paths one run of the compiler may return, in the compiler's order.
ModuleBatches == { << >>, <<"src/b.gleam">>, <<"src/b.gleam", "src/a.gleam">> }

\* The diagnostics one run of the compiler may add to its backlog.
WarningBatches == { << >>, <<"w1">>, <<"w2", "w1">> }

\* What self.compiler.compile() may hand back: the Outcome and, on the side,
\* the diagnostics it accumulated while running.
CompileOutcomes ==
    { [kind |-> k, modules |-> m, error |-> "compile_error", warnings |-> w] :
        k \in {"Ok", "PartialFailure"}, m \in ModuleBatches, w \in WarningBatches }
    \cup
    { [kind |-> "TotalFailure", modules |-> << >>, error |-> "compile_error",
       warnings |-> w] : w \in WarningBatches }

\* Outcome::map applies the closure to the value of Ok and of PartialFailure;
\* this is the value it is applied to (nothing for TotalFailure).
OutcomeMapped(outcome) ==
    IF outcome.kind \in {"Ok", "PartialFailure"} THEN <<outcome.modules>> ELSE << >>

\* Outcome::into_result
into_result(outcome) ==
    IF outcome.kind = "Ok" THEN Ok("unit") ELSE Err(outcome.error)

\* The request kinds that do not compile, with the results their handlers build.
QueryKinds == {"hover", "goto_definition", "completion", "code_actions", "document_symbol"}

QueryResults(kind) ==
    CASE kind = "document_symbol" -> { Ok("symbols") }
      [] kind = "completion"      -> { Ok("None"), Ok("Some"), Err("completion_error") }
      [] OTHER                    -> { Ok("None"), Ok("Some") }

(***************************************************************************)
(* State                                                                   *)
(***************************************************************************)
VARIABLES
    engine,        \* the LanguageServerEngine value, or NoEngine
    newCall,       \* the last call of `new`: what its collaborators did, its result
    trace,         \* the collaborator calls made by the last operation, in order
    lastRequest,   \* the kind of the last request answered
    prevRequest,   \* the kind of the request answered before it
    lastOutcome,   \* what the compiler handed back in the last request, if it compiled
    lastResponse,  \* the Response of the last request
    nRequests,     \* number of requests answered
    returned,      \* every module path the compiler returned, in order
    reported,      \* every module path listed in a response's compilation, in order
    emitted,       \* every warning the compiler accumulated, in order
    delivered      \* every warning listed in a response, in order

engineVars ==
    <<engine, newCall, trace, lastRequest, prevRequest, lastOutcome, lastResponse, nRequests,
      returned, reported, emitted, delivered>>

(***************************************************************************)
(* LanguageServerEngine                                                    *)
(***************************************************************************)

\* LanguageServerEngine::new with the outcomes of its three fallible
\* collaborators ("Ok" or "Err"); a later one is not called when an earlier fails.
new_late_manifest_check(locker, download, compilerNew) ==
    IF locker = "Err"
    THEN [engine |-> NoEngine, result |-> Err("locker_error"),
          trace |-> <<"make_locker">>]
    ELSE LET t1 == <<"make_locker", "dependency_downloading_started",
                     "download_dependencies", "dependency_downloading_finished",
                     "LspProjectCompiler::new">>
         IN  IF compilerNew = "Err"
             THEN [engine |-> NoEngine, result |-> Err("compiler_error"), trace |-> t1]
             ELSE IF download = "Err"
             THEN [engine |-> NoEngine, result |-> Err("download_error"), trace |-> t1]
             ELSE [engine |-> [modules_compiled_since_last_feedback |-> << >>,
                               compiled_since_last_feedback |-> FALSE,
                               compiler_warnings |-> << >>],
                   result |-> Ok("engine"), trace |-> t1]

new_returns_before_finished(locker, download, compilerNew) ==
    IF locker = "Err"
    THEN [engine |-> NoEngine, result |-> Err("locker_error"),
          trace |-> <<"make_locker">>]
    ELSE LET t0 == <<"make_locker", "dependency_downloading_started",
                     "download_dependencies">>
             t1 == Append(t0, "dependency_downloading_finished")
         IN  IF download = "Err"
             THEN [engine |-> NoEngine, result |-> Err("download_error"), trace |-> t0]
             ELSE LET t2 == Append(t1, "LspProjectCompiler::new")
                  IN  IF compilerNew = "Err"
                      THEN [engine |-> NoEngine, result |-> Err("compiler_error"),
                            trace |-> t2]
                      ELSE [engine |-> [modules_compiled_since_last_feedback |-> << >>,
                                        compiled_since_last_feedback |-> FALSE,
                                        compiler_warnings |-> << >>],
                            result |-> Ok("engine"), trace |-> t2]

new(locker, download, compilerNew) ==
    IF locker = "Err"
    THEN [engine |-> NoEngine, result |-> Err("locker_error"),
          trace |-> <<"make_locker">>]
    ELSE LET t1 == <<"make_locker", "dependency_downloading_started",
                     "download_dependencies", "dependency_downloading_finished">>
         IN  IF download = "Err"
             THEN [engine |-> NoEngine, result |-> Err("download_error"), trace |-> t1]
             ELSE LET t2 == Append(t1, "LspProjectCompiler::new")
                  IN  IF compilerNew = "Err"
                      THEN [engine |-> NoEngine, result |-> Err("compiler_error"),
                            trace |-> t2]
                      ELSE [engine |-> [modules_compiled_since_last_feedback |-> << >>,
                                        compiled_since_last_feedback |-> FALSE,
                                        compiler_warnings |-> << >>],
                            result |-> Ok("engine"), trace |-> t2]

\* LanguageServerEngine::compile, the handler of compile_please, given what
\* self.compiler.compile() hands back.
compile_flag_on_success(self, outcome) ==
    LET mapped == OutcomeMapped(outcome)
        s1 == [self EXCEPT !.compiler_warnings = @ \o outcome.warnings]
        s2 == IF mapped = << >> THEN s1
              ELSE [s1 EXCEPT !.modules_compiled_since_last_feedback = @ \o mapped[1],
                              !.compiled_since_last_feedback =
                                  (outcome.kind = "Ok" /\ mapped[1] # << >>)]
    IN  [self |-> s2, result |-> into_result(outcome),
         trace |-> <<"compilation_started", "compiler.compile", "compilation_finished">>]

compile_drops_on_failure(self, outcome) ==
    LET s1 == [self EXCEPT !.compiled_since_last_feedback = TRUE]
        s2 == [s1 EXCEPT !.compiler_warnings = @ \o outcome.warnings]
        s3 == IF outcome.kind # "Ok" THEN s2
              ELSE [s2 EXCEPT !.modules_compiled_since_last_feedback = @ \o outcome.modules]
    IN  [self |-> s3, result |-> into_result(outcome),
         trace |-> <<"compilation_started", "compiler.compile", "compilation_finished">>]

compile(self, outcome) ==
    LET s1 == [self EXCEPT !.compiled_since_last_feedback = TRUE]
        \* self.compiler.compile() adds its diagnostics to the compiler's backlog
        s2 == [s1 EXCEPT !.compiler_warnings = @ \o outcome.warnings]
        mapped == OutcomeMapped(outcome)
        s3 == IF mapped = << >> THEN s2
              ELSE [s2 EXCEPT !.modules_compiled_since_last_feedback = @ \o mapped[1]]
    IN  [self |-> s3, result |-> into_result(outcome),
         trace |-> <<"compilation_started", "compiler.compile", "compilation_finished">>]

\* The handlers of hover, goto_definition, completion, code_actions and
\* document_symbol read the engine and build `result`; none of them compiles.
query_marks_compiled(self, result) ==
    [self |-> [self EXCEPT !.compiled_since_last_feedback = TRUE],
     result |-> result, trace |-> << >>]

query(self, result) ==
    [self |-> self, result |-> result, trace |-> << >>]

\* LanguageServerEngine::take_warnings: the compiler's backlog, emptied.
take_warnings(self) ==
    [self |-> [self EXCEPT !.compiler_warnings = << >>],
     warnings |-> self.compiler_warnings]

\* LanguageServerEngine::respond, given what handler(self) left and returned.
respond_keep_modules(handled) ==
    LET taken == take_warnings(handled.self)
        s1 == taken.self
    IN  IF s1.compiled_since_last_feedback
        THEN [self |-> [s1 EXCEPT !.compiled_since_last_feedback = FALSE],
              response |-> Response(handled.result, taken.warnings,
                              CompilationYes(s1.modules_compiled_since_last_feedback)),
              trace |-> Append(handled.trace, "take_warnings")]
        ELSE [self |-> s1,
              response |-> Response(handled.result, taken.warnings, CompilationNo),
              trace |-> Append(handled.trace, "take_warnings")]

respond_flag_stays(handled) ==
    LET taken == take_warnings(handled.self)
        s1 == taken.self
    IN  IF s1.compiled_since_last_feedback
        THEN [self |-> [s1 EXCEPT !.modules_compiled_since_last_feedback = << >>],
              response |-> Response(handled.result, taken.warnings,
                              CompilationYes(s1.modules_compiled_since_last_feedback)),
              trace |-> Append(handled.trace, "take_warnings")]
        ELSE [self |-> s1,
              response |-> Response(handled.result, taken.warnings, CompilationNo),
              trace |-> Append(handled.trace, "take_warnings")]

respond_ok_only(handled) ==
    LET taken == IF handled.result.tag = "Ok" THEN take_warnings(handled.self)
                 ELSE [self |-> handled.self, warnings |-> << >>]
        s1 == taken.self
    IN  IF s1.compiled_since_last_feedback /\ handled.result.tag = "Ok"
        THEN [self |-> [s1 EXCEPT !.modules_compiled_since_last_feedback = << >>,
                                  !.compiled_since_last_feedback = FALSE],
              response |-> Response(handled.result, taken.warnings,
                              CompilationYes(s1.modules_compiled_since_last_feedback)),
              trace |-> Append(handled.trace, "take_warnings")]
        ELSE [self |-> s1,
              response |-> Response(handled.result, taken.warnings, CompilationNo),
              trace |-> Append(handled.trace, "take_warnings")]

respond(handled) ==
    LET taken == take_warnings(handled.self)
        s1 == taken.self
    IN  IF s1.compiled_since_last_feedback
        THEN [self |-> [s1 EXCEPT !.modules_compiled_since_last_feedback = << >>,
                                  !.compiled_since_last_feedback = FALSE],
              response |-> Response(handled.result, taken.warnings,
                              CompilationYes(s1.modules_compiled_since_last_feedback)),
              trace |-> Append(handled.trace, "take_warnings")]
        ELSE [self |-> s1,
              response |-> Response(handled.result, taken.warnings, CompilationNo),
              trace |-> Append(handled.trace, "take_warnings")]

\* pub fn compile_please(&mut self) -> Response<()>
compile_please(self, outcome) == respond(compile(self, outcome))

(***************************************************************************)
(* Actions of the engine                                                   *)
(***************************************************************************)
EngineInit ==
    /\ engine = NoEngine
    /\ newCall = NoCall
    /\ trace = << >>
    /\ lastRequest = "none"
    /\ prevRequest = "none"
    /\ lastOutcome = NoCall
    /\ lastResponse = NoResponse
    /\ nRequests = 0
    /\ returned = << >>
    /\ reported = << >>
    /\ emitted = << >>
    /\ delivered = << >>

\* The client constructs the engine; a failed construction leaves none.
New ==
    /\ engine = NoEngine
    /\ newCall = NoCall
    /\ \E locker \in {"Ok", "Err"}, download \in {"Ok", "Err"}, compilerNew \in {"Ok", "Err"} :
         LET r == new(locker, download, compilerNew)
         IN  /\ engine' = r.engine
             /\ newCall' = [locker |-> locker, download |-> download,
                            compilerNew |-> compilerNew, result |-> r.result]
             /\ trace' = r.trace
    /\ UNCHANGED <<lastRequest, prevRequest, lastOutcome, lastResponse, nRequests,
                   returned, reported, emitted, delivered>>

\* The bookkeeping every answered request shares.
Answered(kind, outcome, r) ==
    /\ engine' = r.self
    /\ trace' = r.trace
    /\ lastRequest' = kind
    /\ prevRequest' = lastRequest
    /\ lastOutcome' = outcome
    /\ lastResponse' = r.response
    /\ nRequests' = nRequests + 1
    /\ reported' = reported \o r.response.compilation.modules
    /\ delivered' = delivered \o r.response.warnings
    /\ UNCHANGED newCall

CompilePlease ==
    /\ engine # NoEngine
    /\ nRequests < MaxRequests
    /\ \E outcome \in CompileOutcomes :
         /\ Answered("compile_please", outcome, compile_please(engine, outcome))
         /\ returned' = returned \o outcome.modules
         /\ emitted' = emitted \o outcome.warnings

Query ==
    /\ engine # NoEngine
    /\ nRequests < MaxRequests
    /\ \E kind \in QueryKinds :
         \E result \in QueryResults(kind) :
            Answered(kind, NoCall, respond(query(engine, result)))
    /\ UNCHANGED <<returned, emitted>>

(***************************************************************************)
(* git::Downloader                                                         *)
(***************************************************************************)

\* Number of calls made on one Downloader in a checked run.
MaxCalls == 2

\* Longest package list handed to download_git_packages.
MaxPackages == 2

PackageNames == {"a", "b", "app"}

Commits == {"c1", "c2"}

\* What Downloader::exec hands back: an Err, Ok(0) or Ok(non-zero status).
ExecResults == {"Err", "Zero", "NonZero"}

\* ManifestPackage: a name and a ManifestPackageSource (Git { repo, commit } or other).
ManifestPackages ==
    { [name |-> "a", kind |-> "Git", commit |-> "c2"],
      [name |-> "b", kind |-> "Git", commit |-> "c1"],
      [name |-> "app", kind |-> "Git", commit |-> "c1"],
      [name |-> "h", kind |-> "Hex", commit |-> "None"] }

\* The names download_git_packages is given as the root project's.
ProjectNames == {"app", "b"}

\* The commits the origin may hold when it is cloned or fetched from.
Origins == { {"c1"}, {"c1", "c2"} }

RECURSIVE ListsUpTo(_)
\* The package lists of at most n packages with pairwise different names.
ListsUpTo(n) ==
    IF n = 0 THEN { << >> }
    ELSE LET shorter == ListsUpTo(n - 1)
         IN  shorter \cup
             { Append(l, p) : l \in { s \in shorter : Len(s) = n - 1 },
                              p \in ManifestPackages }

DistinctNames(l) == \A i, j \in DOMAIN l : i # j => l[i].name # l[j].name

PackageLists == { l \in ListsUpTo(MaxPackages) : DistinctNames(l) }

\* A package's directory under build/packages: whether it exists, the commit
\* its HEAD is detached at ("none" on a branch), the commits known locally.
NoRepository == [dir |-> FALSE, head |-> "none", known |-> {}]

\* What the executed git commands do to the package's directory.  A command
\* run in a directory that does not exist cannot be started.
git_clone(repository, status, origin) ==
    IF status = "Zero" THEN [dir |-> TRUE, head |-> "none", known |-> origin]
    ELSE repository

git_fetch(repository, status, origin) ==
    IF status = "Zero" THEN [repository EXCEPT !.known = @ \cup origin]
    ELSE repository

git_checkout(repository, status, commit) ==
    IF status = "Zero" THEN [repository EXCEPT !.head = commit]
    ELSE repository

\* The results the executor can give for a command in this directory.
ExecCan(command, repository, commit) ==
    CASE command = "clone" -> ExecResults
      [] ~repository.dir -> {"Err"}
      [] command = "fetch" -> ExecResults
      [] commit \in repository.known -> {"Err", "Zero"}
      [] OTHER -> {"Err", "NonZero"}

VARIABLES
    repositories,  \* the build directory: package name -> its directory's state
    download,      \* the call in progress or last finished on the Downloader
    futures,       \* the futures of that call, in iteration order
    nCalls         \* number of calls started

gitVars == <<repositories, download, futures, nCalls>>

\* The future of one ensure_git_package_in_build_directory(name, repo, commit),
\* not yet polled.
Future(name, commit) ==
    [name |-> name, commit |-> commit, pc |-> "clone",
     was_directory |-> FALSE, head_before |-> "none", clone |-> "none",
     cloned |-> FALSE, cat_file |-> "none", commit_exists |-> FALSE,
     commands |-> << >>,
     result |-> [tag |-> "Pending", value |-> << >>]]

\* Downloader::ensure_package_repository_cloned
ensure_package_repository_cloned_always(name, repository, status, origin) ==
    IF status = "Err"
    THEN [result |-> Err(<<"clone", name>>), commands |-> <<"clone">>,
          repository |-> repository]
    ELSE [result |-> Ok(<<"true">>), commands |-> <<"clone">>,
          repository |-> git_clone(repository, status, origin)]

ensure_package_repository_cloned(name, repository, status, origin) ==
    IF repository.dir
    THEN [result |-> Ok(<<"false">>), commands |-> << >>, repository |-> repository]
    ELSE IF status = "Err"
    THEN [result |-> Err(<<"clone", name>>), commands |-> <<"clone">>,
          repository |-> repository]
    ELSE [result |-> Ok(<<"true">>), commands |-> <<"clone">>,
          repository |-> git_clone(repository, status, origin)]

\* Downloader::ensure_git_package_in_build_directory up to its match on `commit`.
ensure_git_package_in_build_directory(future, repository, status, origin) ==
    LET c == ensure_package_repository_cloned(future.name, repository, status, origin)
        f1 == [future EXCEPT !.was_directory = repository.dir,
                             !.head_before = repository.head,
                             !.clone = IF c.commands = << >> THEN "skipped" ELSE status,
                             !.commands = @ \o c.commands]
    IN  IF c.result.tag = "Err"
        THEN [future |-> [f1 EXCEPT !.pc = "done", !.result = c.result],
              repository |-> c.repository]
        ELSE LET cloned == (c.result.value = <<"true">>)
             IN  IF future.commit = "None"
                 THEN [future |-> [f1 EXCEPT !.cloned = cloned, !.pc = "done",
                                     !.result = Ok(IF cloned \/ FALSE THEN <<"true">>
                                                   ELSE <<"false">>)],
                       repository |-> c.repository]
                 ELSE [future |-> [f1 EXCEPT !.cloned = cloned, !.pc = "cat-file"],
                       repository |-> c.repository]

\* Downloader::checkout_package_repository_to_commit: git cat-file commit
checkout_cat_file_skip_at_head(future, repository, status) ==
    IF repository.head = future.commit
    THEN [future EXCEPT !.pc = "done",
                        !.result = Ok(IF future.cloned THEN <<"true">> ELSE <<"false">>)]
    ELSE LET commit_exists == (status = "Zero")
         IN  [future EXCEPT !.commands = Append(@, "cat-file"),
                            !.cat_file = status,
                            !.commit_exists = commit_exists,
                            !.pc = IF commit_exists THEN "checkout" ELSE "fetch"]

checkout_cat_file_fetch_on_error_only(future, repository, status) ==
    LET commit_exists == (status # "Err")
    IN  [future EXCEPT !.commands = Append(@, "cat-file"),
                       !.cat_file = status,
                       !.commit_exists = commit_exists,
                       !.pc = IF commit_exists THEN "checkout" ELSE "fetch"]

checkout_cat_file(future, repository, status) ==
    LET commit_exists == (status = "Zero")
    IN  [future EXCEPT !.commands = Append(@, "cat-file"),
                       !.cat_file = status,
                       !.commit_exists = commit_exists,
                       !.pc = IF commit_exists THEN "checkout" ELSE "fetch"]

\* Downloader::checkout_package_repository_to_commit: git fetch
checkout_fetch(future, repository, status, origin) ==
    LET f1 == [future EXCEPT !.commands = Append(@, "fetch")]
    IN  IF status = "Err"
        THEN [future |-> [f1 EXCEPT !.pc = "done",
                                    !.result = Err(<<"fetch", future.name>>)],
              repository |-> repository]
        ELSE [future |-> [f1 EXCEPT !.pc = "checkout"],
              repository |-> git_fetch(repository, status, origin)]

\* Downloader::checkout_package_repository_to_commit: git checkout --detach,
\* and the Ok(cloned || checkout_done) of ensure_git_package_in_build_directory.
checkout_checkout(future, repository, status) ==
    LET f1 == [future EXCEPT !.commands = Append(@, "checkout")]
    IN  IF status = "Err"
        THEN [future |-> [f1 EXCEPT !.pc = "done",
                                    !.result = Err(<<"checkout", future.name>>)],
              repository |-> repository]
        ELSE LET checkout_done == TRUE
             IN  [future |-> [f1 EXCEPT !.pc = "done",
                                 !.result = Ok(IF future.cloned \/ checkout_done
                                               THEN <<"true">> ELSE <<"false">>)],
                   repository |-> git_checkout(repository, status, future.commit)]

\* download_git_packages: .filter(|package| project_name != package.name)
filter_packages(packages, project_name) ==
    SelectSeq(packages, LAMBDA package : project_name # package.name)

\* download_git_packages: the futures of the filtered packages; the closure
\* panics on a package whose source is not Git.
map_futures(filtered) ==
    [i \in DOMAIN filtered |-> Future(filtered[i].name, filtered[i].commit)]

\* future::join_all(futures).await is over once every future is.
join_all_first_error(fs) ==
    \/ \A i \in DOMAIN fs : fs[i].pc = "done"
    \/ \E i \in DOMAIN fs : fs[i].result.tag = "Err"

join_all(fs) == \A i \in DOMAIN fs : fs[i].pc = "done"

RECURSIVE first_error(_, _)
\* download_git_packages: for result in results { let _ = result?; } Ok(())
first_error(fs, i) ==
    IF i > Len(fs) THEN Ok(<<"unit">>)
    ELSE IF fs[i].result.tag = "Err" THEN fs[i].result
    ELSE first_error(fs, i + 1)

(***************************************************************************)
(* Actions of the downloader                                               *)
(***************************************************************************)
NoDownload ==
    [kind |-> "none", packages |-> << >>, project_name |-> "none",
     status |-> "idle", result |-> [tag |-> "Pending", value |-> << >>]]

GitInit ==
    /\ repositories = [n \in PackageNames |-> NoRepository]
    /\ download = NoDownload
    /\ futures = << >>
    /\ nCalls = 0

CanCall ==
    /\ download.status \in {"idle", "returned"}
    /\ nCalls < MaxCalls

\* A caller starts download_git_packages(packages, project_name).
DownloadGitPackages ==
    /\ CanCall
    /\ \E packages \in PackageLists, project_name \in ProjectNames :
         LET filtered == filter_packages(packages, project_name)
         IN  IF \E i \in DOMAIN filtered : filtered[i].kind # "Git"
             THEN /\ download' = [kind |-> "download_git_packages",
                                  packages |-> packages, project_name |-> project_name,
                                  status |-> "panicked",
                                  result |-> [tag |-> "Pending", value |-> << >>]]
                  /\ futures' = << >>
             ELSE /\ download' = [kind |-> "download_git_packages",
                                  packages |-> packages, project_name |-> project_name,
                                  status |-> "running",
                                  result |-> [tag |-> "Pending", value |-> << >>]]
                  /\ futures' = map_futures(filtered)
    /\ nCalls' = nCalls + 1
    /\ UNCHANGED repositories

\* A caller starts ensure_git_package_in_build_directory(name, repo, commit).
EnsureGitPackage ==
    /\ CanCall
    /\ \E name \in {"a"}, commit \in Commits \cup {"None"} :
         /\ download' = [kind |-> "ensure_git_package_in_build_directory",
                         packages |-> << >>, project_name |-> "none",
                         status |-> "running",
                         result |-> [tag |-> "Pending", value |-> << >>]]
         /\ futures' = << Future(name, commit) >>
    /\ nCalls' = nCalls + 1
    /\ UNCHANGED repositories

\* One future runs up to and including its next git command.
StepClone ==
    /\ download.status = "running"
    /\ \E i \in DOMAIN futures :
         /\ futures[i].pc = "clone"
         /\ \E status \in ExecCan("clone", repositories[futures[i].name], futures[i].commit),
               origin \in Origins :
              LET r == ensure_git_package_in_build_directory(
                           futures[i], repositories[futures[i].name], status, origin)
              IN  /\ futures' = [futures EXCEPT ![i] = r.future]
                  /\ repositories' = [repositories EXCEPT ![futures[i].name] = r.repository]
    /\ UNCHANGED <<download, nCalls>>

StepCatFile ==
    /\ download.status = "running"
    /\ \E i \in DOMAIN futures :
         /\ futures[i].pc = "cat-file"
         /\ \E status \in ExecCan("cat-file", repositories[futures[i].name], futures[i].commit) :
              futures' = [futures EXCEPT ![i] =
                  checkout_cat_file(futures[i], repositories[futures[i].name], status)]
    /\ UNCHANGED <<repositories, download, nCalls>>

StepFetch ==
    /\ download.status = "running"
    /\ \E i \in DOMAIN futures :
         /\ futures[i].pc = "fetch"
         /\ \E status \in ExecCan("fetch", repositories[futures[i].name], futures[i].commit),
               origin \in Origins :
              LET r == checkout_fetch(futures[i], repositories[futures[i].name], status, origin)
              IN  /\ futures' = [futures EXCEPT ![i] = r.future]
                  /\ repositories' = [repositories EXCEPT ![futures[i].name] = r.repository]
    /\ UNCHANGED <<download, nCalls>>

StepCheckout ==
    /\ download.status = "running"
    /\ \E i \in DOMAIN futures :
         /\ futures[i].pc = "checkout"
         /\ \E status \in ExecCan("checkout", repositories[futures[i].name], futures[i].commit) :
              LET r == checkout_checkout(futures[i], repositories[futures[i].name], status)
              IN  /\ futures' = [futures EXCEPT ![i] = r.future]
                  /\ repositories' = [repositories EXCEPT ![futures[i].name] = r.repository]
    /\ UNCHANGED <<download, nCalls>>

\* The call returns to its caller.
Return ==
    /\ download.status = "running"
    /\ join_all(futures)
    /\ download' = [download EXCEPT
                       !.status = "returned",
                       !.result = IF download.kind = "download_git_packages"
                                  THEN first_error(futures, 1)
                                  ELSE futures[1].result]
    /\ UNCHANGED <<repositories, futures, nCalls>>

(***************************************************************************)
(* Source text, line numbers and positions                                 *)
(***************************************************************************)

\* Longest module source text, in bytes.
MaxTextLen == 3

\* Most unused imports in one module.
MaxUnused == 2

\* Largest line and character number of a position the client sends.
MaxCursor == 1

\* Option<T>
None == << >>

Some(v) == << v >>

\* The bytes of a source text: a byte of some token, or the line terminator.
Bytes == {"i", "\n"}

Texts == UNION { [1..n -> Bytes] : n \in 0..MaxTextLen }

\* SrcSpan { start, end }: byte offsets, end exclusive.
SrcSpan(start, end) == [start |-> start, end |-> end]

\* lsp_types::Position and lsp_types::Range
Position(line, character) == [line |-> line, character |-> character]

Range(start, end) == [start |-> start, end |-> end]

\* The derived ordering of Position: by line, then by character.
PositionLess(p, q) ==
    \/ p.line < q.line
    \/ p.line = q.line /\ p.character < q.character

RECURSIVE line_starts_after(_, _)
\* The offsets that follow a line terminator, from byte i (1-based) on.
line_starts_after(text, i) ==
    IF i > Len(text) THEN << >>
    ELSE (IF text[i] = "\n" THEN << i >> ELSE << >>) \o line_starts_after(text, i + 1)

\* LineNumbers::new: the table of the offsets at which the lines begin.
LineNumbers(text) ==
    [line_starts |-> << 0 >> \o line_starts_after(text, 1), length |-> Len(text)]

\* LineNumbers::line_and_column_number: the last line start at or before the
\* offset gives the line, the distance from it the column, both from 1.
line_and_column_number(line_numbers, byte_index) ==
    LET line == Cardinality({ k \in DOMAIN line_numbers.line_starts :
                                line_numbers.line_starts[k] <= byte_index })
    IN  [line |-> line, column |-> byte_index - line_numbers.line_starts[line] + 1]

\* src_span_to_lsp_range: both ends as zero-based line and character.
src_span_to_lsp_range(location, line_numbers) ==
    LET start == line_and_column_number(line_numbers, location.start)
        end == line_and_column_number(line_numbers, location.end)
    IN  Range(Position(start.line - 1, start.column - 1),
              Position(end.line - 1, end.column - 1))

(***************************************************************************)
(* Module lookup                                                           *)
(***************************************************************************)

\* A path is a sequence of components, a component a sequence of string
\* pieces ("a" ".gleam"); a module name is a sequence of pieces.
ProjectRoot == << <<"proj">> >>

Uri(scheme, path) == [scheme |-> scheme, path |-> path]

\* The module names the compiler holds a Module for.
ModuleNames == { <<"a">>, <<"dir", "/", "a">> }

UriOfA == Uri("file", << <<"proj">>, <<"src">>, <<"a", ".gleam">> >>)

UriOfDirA == Uri("file", << <<"proj">>, <<"test">>, <<"dir">>, <<"a", ".gleam">> >>)

\* URIs of documents the compiler holds a module for.
KnownUris == { UriOfA, UriOfDirA }

\* File URIs that lead to no module: an unknown name, no .gleam suffix, a path
\* outside the project root.
MissUris ==
    { Uri("file", << <<"proj">>, <<"src">>, <<"zz", ".gleam">> >>),
      Uri("file", << <<"proj">>, <<"src">>, <<"a", ".txt">> >>),
      Uri("file", << <<"other">>, <<"src">>, <<"a", ".gleam">> >>) }

\* URIs that are no file path, such as the one of an unsaved document.
NonFileUris == { Uri("untitled", << <<"Untitled-1">> >>) }

RECURSIVE intersperse(_, _)
\* Itertools::intersperse(components, "/") collected into one string.
intersperse(components, separator) ==
    IF components = << >> THEN << >>
    ELSE IF Len(components) = 1 THEN components[1]
    ELSE components[1] \o << separator >> \o intersperse(Tail(components), separator)

\* Path::strip_prefix
strip_prefix(path, prefix) ==
    IF Len(path) >= Len(prefix) /\ SubSeq(path, 1, Len(prefix)) = prefix
    THEN Some(SubSeq(path, Len(prefix) + 1, Len(path)))
    ELSE None

\* str::strip_suffix
strip_suffix(string, suffix) ==
    IF string # << >> /\ string[Len(string)] = suffix
    THEN Some(SubSeq(string, 1, Len(string) - 1))
    ELSE None

\* The targets the engine is built for: those that have Url::to_file_path
\* (unix, windows, redox, wasi), and the others.
Targets == { "unix", "other" }

\* LanguageServerEngine::module_for_uri with the compiler's module table. Where
\* the target has it, uri.to_file_path().expect("URL file") panics on a URI
\* that is no file path; elsewhere the path of the URI is taken as it is.
module_for_uri(uri, modules, target) ==
    IF target = "unix" /\ uri.scheme # "file" THEN [panicked |-> TRUE, module |-> None]
    ELSE LET stripped == strip_prefix(uri.path, ProjectRoot)
         IN  IF stripped = None THEN [panicked |-> FALSE, module |-> None]
             ELSE LET components == Tail(stripped[1])
                      joined == IF stripped[1] = << >> THEN << >>
                                ELSE intersperse(components, "/")
                      module_name == strip_suffix(joined, ".gleam")
                  IN  IF module_name = None THEN [panicked |-> FALSE, module |-> None]
                      ELSE IF module_name[1] \in DOMAIN modules
                      THEN [panicked |-> FALSE, module |-> Some(modules[module_name[1]])]
                      ELSE [panicked |-> FALSE, module |-> None]

(***************************************************************************)
(* Code actions                                                            *)
(***************************************************************************)

\* fn within(position, range)
within(position, range) ==
    /\ ~PositionLess(position, range.start)
    /\ PositionLess(position, range.end)

\* pub fn overlaps(a, b)
overlaps(a, b) ==
    within(a.start, b) \/ within(a.end, b) \/ within(b.start, a) \/ within(b.end, a)

\* fn delete_line(span, line_numbers)
delete_line_start_only(span, line_numbers) ==
    \E k \in DOMAIN line_numbers.line_starts :
        line_numbers.line_starts[k] = span.start

delete_line(span, line_numbers) ==
    \E k \in DOMAIN line_numbers.line_starts :
        /\ line_numbers.line_starts[k] = span.start
        /\ \E l \in DOMAIN line_numbers.line_starts :
               line_numbers.line_starts[l] = span.end + 1

RECURSIVE insert_by_start(_, _)
\* The place of an edit among edits sorted by range.start, after its equals.
insert_by_start(sorted, edit) ==
    IF sorted = << >> THEN << edit >>
    ELSE IF PositionLess(edit.range.start, sorted[1].range.start)
    THEN << edit >> \o sorted
    ELSE << sorted[1] >> \o insert_by_start(Tail(sorted), edit)

RECURSIVE sort_by_start(_)
\* edits.sort_by_key(|edit| edit.range.start): a stable sort.
sort_by_start(edits) ==
    IF edits = << >> THEN << >>
    ELSE insert_by_start(sort_by_start(SubSeq(edits, 1, Len(edits) - 1)),
                         edits[Len(edits)])

\* The TextEdit of one unused import.
unused_import_edit_always_extends(unused, line_numbers) ==
    [range |-> src_span_to_lsp_range(SrcSpan(unused.start, unused.end + 1),
                                     line_numbers),
     new_text |-> ""]

unused_import_edit(unused, line_numbers) ==
    LET adjusted_end == IF delete_line(unused, line_numbers)
                        THEN unused.end + 1 ELSE unused.end
    IN  [range |-> src_span_to_lsp_range(SrcSpan(unused.start, adjusted_end),
                                         line_numbers),
         new_text |-> ""]

\* fn code_action_unused_imports(module, params, actions): the actions pushed.
code_action_unused_imports_hovered_only(module, params) ==
    LET unused == module.unused_imports
        line_numbers == LineNumbers(module.code)
        edits == [k \in DOMAIN unused |-> unused_import_edit(unused[k], line_numbers)]
        hovered == \E k \in DOMAIN edits : overlaps(params.range, edits[k].range)
    IN  IF unused = << >> \/ ~hovered THEN << >>
        ELSE << [title |-> "Remove unused imports", kind |-> "quickfix",
                 uri |-> params.uri,
                 edits |-> SelectSeq(edits, LAMBDA e : overlaps(params.range, e.range)),
                 is_preferred |-> TRUE] >>

code_action_unused_imports(module, params) ==
    LET unused == module.unused_imports
    IN  IF unused = << >> THEN << >>
        ELSE LET line_numbers == LineNumbers(module.code)
                 edits == [k \in DOMAIN unused |->
                              unused_import_edit(unused[k], line_numbers)]
                 hovered == \E k \in DOMAIN edits :
                                overlaps(params.range, edits[k].range)
             IN  IF ~hovered THEN << >>
                 ELSE << [title |-> "Remove unused imports", kind |-> "quickfix",
                          uri |-> params.uri, edits |-> sort_by_start(edits),
                          is_preferred |-> TRUE] >>

\* The handler of code_actions; `redundant` is what
\* RedundantTupleInCaseSubject::code_actions returns.
code_actions(lookup, params, redundant) ==
    IF lookup.module = None THEN Ok(None)
    ELSE LET actions == code_action_unused_imports(lookup.module[1], params)
                        \o redundant
         IN  Ok(IF actions = << >> THEN None ELSE Some(actions))

(***************************************************************************)
(* Requests answered on a constructed engine                               *)
(***************************************************************************)

\* The engine between two requests.
IdleEngine ==
    [modules_compiled_since_last_feedback |-> << >>,
     compiled_since_last_feedback |-> FALSE,
     compiler_warnings |-> << >>]

\* The engine when a request arrives: idle, or holding warnings and modules of
\* a compilation not yet reported.
Engines ==
    { IdleEngine,
      [modules_compiled_since_last_feedback |-> << "src/a.gleam" >>,
       compiled_since_last_feedback |-> TRUE,
       compiler_warnings |-> << "w1" >>] }

\* The spans the compiler reports as unused imports of a text: non-empty, and
\* beginning and ending with a byte of the import, not with a line terminator.
ImportSpans(text) ==
    { SrcSpan(a, b) : a \in 0..Len(text), b \in 0..Len(text) } \cap
    { sp \in [start : 0..MaxTextLen, end : 0..MaxTextLen] :
        /\ sp.start < sp.end
        /\ sp.end <= Len(text)
        /\ text[sp.start + 1] # "\n"
        /\ text[sp.end] # "\n" }

RECURSIVE SpanListsUpTo(_, _)
\* The lists of at most n different spans, in any order.
SpanListsUpTo(spans, n) ==
    IF n = 0 THEN { << >> }
    ELSE LET shorter == SpanListsUpTo(spans, n - 1)
         IN  shorter \cup
             { Append(l, sp) : l \in { s \in shorter : Len(s) = n - 1 }, sp \in spans }

DifferentSpans(l) == \A i, j \in DOMAIN l : i # j => l[i] # l[j]

CursorPositions ==
    { Position(l, c) : l \in 0..MaxCursor, c \in 0..MaxCursor }

CursorRanges ==
    { Range(p, q) : p \in CursorPositions, q \in CursorPositions } \cap
    { r \in [start : CursorPositions, end : CursorPositions] :
        ~PositionLess(r.end, r.start) }

\* The modules a code_actions request can meet.
CodeActionModules ==
    UNION { { [code |-> text, unused_imports |-> l] :
                l \in { u \in SpanListsUpTo(ImportSpans(text), MaxUnused) :
                          DifferentSpans(u) } } : text \in Texts }

CodeActionRequests ==
    { [kind |-> "code_actions", target |-> "unix", uri |-> UriOfA, engine |-> IdleEngine,
       module |-> mod, range |-> r, redundant |-> red] :
        mod \in CodeActionModules, r \in CursorRanges, red \in { << >> } }
    \cup
    { [kind |-> "code_actions", target |-> "unix", uri |-> UriOfA, engine |-> IdleEngine,
       module |-> mod, range |-> Range(Position(0, 0), Position(0, 0)),
       redundant |-> << [title |-> "Convert to case"] >>] :
        mod \in CodeActionModules }
    \cup
    { [kind |-> "code_actions", target |-> t, uri |-> u, engine |-> e,
       module |-> [code |-> << "i" >>, unused_imports |-> << SrcSpan(0, 1) >>],
       range |-> Range(Position(0, 0), Position(0, 0)), redundant |-> << >>] :
        u \in {UriOfDirA} \cup MissUris \cup NonFileUris, e \in Engines, t \in Targets }

VARIABLES
    request,   \* the request the client sends, with what the engine holds for it
    answer,    \* the Response it is answered with
    calls      \* the lookups and completers the handler called, in order

queryVars == <<request, answer, calls>>

NoRequest == [kind |-> "none"]

Pending == [tag |-> "Pending"]

Panicked == [tag |-> "Panicked"]

\* The compiler's module table when the request arrives.
ModuleTable(req) == [n \in ModuleNames |-> req.module]

\* LanguageServerEngine::code_actions
CodeActions ==
    /\ request.kind = "code_actions"
    /\ answer = Pending
    /\ LET lookup == module_for_uri(request.uri, ModuleTable(request), request.target)
       IN  answer' =
             IF lookup.panicked THEN Panicked
             ELSE respond(query(request.engine,
                      code_actions(lookup, [uri |-> request.uri, range |-> request.range],
                                   request.redundant))).response
    /\ calls' = << >>
    /\ UNCHANGED request

(***************************************************************************)
(* Completion                                                              *)
(***************************************************************************)

\* The kinds of node Module::find_node can locate.
LocatedKinds ==
    { "Pattern", "Statement", "Expression", "Function", "FunctionBody",
      "TypeAlias", "CustomType", "Import", "ModuleConstant",
      "UnqualifiedImport", "Arg", "Annotation" }

CompletionItem(kind, label) == [kind |-> kind, label |-> label]

\* What Completer::import_completions can return: nothing when no import is
\* being written, and else the result the request returns.
ImportCompletions ==
    { None,
      Some(Ok(Some(<< CompletionItem("module", "gleam/list") >>))),
      Some(Ok(None)) }

\* Completer::completion_values and Completer::completion_types
completion_values == << CompletionItem("value", "x"), CompletionItem("value", "list.map") >>

completion_types == << CompletionItem("type", "Int") >>

\* Completer::unqualified_completions_from_module: the exports of the module.
unqualified_completions_from_module(importing_module) ==
    [k \in DOMAIN importing_module |-> CompletionItem("unqualified", importing_module[k])]

\* What get_module_inferface can return for the module an import names.
ModuleInterfaces == { None, Some(<< "map", "List" >>) }

\* The body of the completion handler: its result and the calls it made.
completion_falls_through(lookup, params) ==
    IF lookup.module = None THEN [result |-> Ok(None), calls |-> << >>]
    ELSE LET found == lookup.module[1].found
             imports == IF params.import_completions = None
                        \/ params.import_completions[1].value = None THEN << >>
                        ELSE params.import_completions[1].value[1]
         IN  IF found = None
             THEN [result |-> Ok(None), calls |-> << "import_completions", "find_node" >>]
             ELSE [result |-> Ok(Some(imports \o completion_values)),
                   calls |-> << "import_completions", "find_node", "completion_values" >>]

completion(lookup, params) ==
    IF lookup.module = None THEN [result |-> Ok(None), calls |-> << >>]
    ELSE IF params.import_completions # None
    THEN [result |-> params.import_completions[1], calls |-> << "import_completions" >>]
    ELSE LET found == lookup.module[1].found
             looked == << "import_completions", "find_node" >>
         IN  IF found = None THEN [result |-> Ok(None), calls |-> looked]
             ELSE IF found[1] \in {"Statement", "Expression", "FunctionBody"}
             THEN [result |-> Ok(Some(completion_values)),
                   calls |-> Append(looked, "completion_values")]
             ELSE IF found[1] \in {"Function", "TypeAlias", "CustomType", "Annotation"}
             THEN [result |-> Ok(Some(completion_types)),
                   calls |-> Append(looked, "completion_types")]
             ELSE IF found[1] = "Import"
             THEN IF params.interface = None
                  THEN [result |-> Ok(None),
                        calls |-> Append(looked, "get_module_inferface")]
                  ELSE [result |-> Ok(Some(unqualified_completions_from_module(
                                              params.interface[1]))),
                        calls |-> looked \o << "get_module_inferface",
                                    "unqualified_completions_from_module" >>]
             ELSE [result |-> Ok(None), calls |-> looked]

\* What find_node can return: no node, or a node of one of the kinds.
FoundNodes == { None } \cup { Some(k) : k \in LocatedKinds }

CompletionRequests ==
    { [kind |-> "completion", target |-> "unix", uri |-> UriOfA, engine |-> IdleEngine,
       module |-> [found |-> f], import_completions |-> ic, interface |-> mi] :
        f \in FoundNodes, ic \in ImportCompletions, mi \in ModuleInterfaces }
    \cup
    { [kind |-> "completion", target |-> t, uri |-> u, engine |-> e,
       module |-> [found |-> Some("Expression")], import_completions |-> ic,
       interface |-> None] :
        u \in {UriOfDirA} \cup MissUris \cup NonFileUris, e \in Engines,
        ic \in { None, Some(Ok(None)) }, t \in Targets }

\* LanguageServerEngine::completion
Completion ==
    /\ request.kind = "completion"
    /\ answer = Pending
    /\ LET lookup == module_for_uri(request.uri, ModuleTable(request), request.target)
           handled == completion(lookup, request)
       IN  /\ answer' = IF lookup.panicked THEN Panicked
                        ELSE respond(query(request.engine, handled.result)).response
           /\ calls' = IF lookup.panicked THEN << >> ELSE handled.calls
    /\ UNCHANGED request

(***************************************************************************)
(* Document symbols                                                        *)
(***************************************************************************)

\* Most definitions in one module.
MaxDefinitions == 2

\* fn make_deprecated_symbol_tag(deprecation)
make_deprecated_symbol_tag(deprecation) ==
    IF deprecation = "Deprecated" THEN Some(<< "DEPRECATED" >>) ELSE None

\* lsp::DocumentSymbol, without its detail and its two ranges.
DocumentSymbol(name, kind, tags, children) ==
    [name |-> name, kind |-> kind, tags |-> tags, children |-> children]

\* A constructor argument, with its label if it has one.
Labeled(label) == [label |-> Some(label)]

Unlabeled == [label |-> None]

RecordConstructor(name, arguments) == [name |-> name, arguments |-> arguments]

\* The constructor lists of the custom types.
ConstructorLists ==
    LET A == RecordConstructor("A", << >>)
        B == RecordConstructor("B", << Labeled("x"), Unlabeled, Labeled("y") >>)
        C == RecordConstructor("C", << Unlabeled >>)
    IN  { << >>, << A >>, << B, A >>, << A, C, B >> }

Deprecations == { "NotDeprecated", "Deprecated" }

\* The definitions a module can hold.
Definitions ==
    { [def |-> d, name |-> d, deprecation |-> dep, constructors |-> << >>] :
        d \in {"Function", "TypeAlias", "ModuleConstant"}, dep \in Deprecations }
    \cup
    { [def |-> "Import", name |-> "gleam/list", deprecation |-> "NotDeprecated",
       constructors |-> << >>] }
    \cup
    { [def |-> "CustomType", name |-> "CustomType", deprecation |-> dep,
       constructors |-> cs] : dep \in Deprecations, cs \in ConstructorLists }

RECURSIVE DefinitionListsUpTo(_)
DefinitionListsUpTo(n) ==
    IF n = 0 THEN { << >> }
    ELSE LET shorter == DefinitionListsUpTo(n - 1)
         IN  shorter \cup
             { Append(l, d) : l \in { s \in shorter : Len(s) = n - 1 }, d \in Definitions }

RECURSIVE argument_symbols(_)
\* The loop over constructor.arguments: a FIELD symbol per labeled argument.
argument_symbols_keeps_unlabeled(arguments) ==
    [k \in DOMAIN arguments |->
        DocumentSymbol(IF arguments[k].label = None THEN "_" ELSE arguments[k].label[1],
                       "FIELD", None, None)]

argument_symbols(arguments) ==
    IF arguments = << >> THEN << >>
    ELSE (IF arguments[1].label = None THEN << >>
          ELSE << DocumentSymbol(arguments[1].label[1], "FIELD", None, None) >>)
         \o argument_symbols(Tail(arguments))

\* fn custom_type_symbol(type_, line_numbers)
custom_type_symbol(type_) ==
    LET constructors ==
            [k \in DOMAIN type_.constructors |->
                LET constructor == type_.constructors[k]
                IN  DocumentSymbol(constructor.name,
                        IF constructor.arguments = << >> THEN "ENUM_MEMBER"
                        ELSE "CONSTRUCTOR",
                        None,
                        Some(argument_symbols(constructor.arguments)))]
    IN  DocumentSymbol(type_.name, "CLASS",
                       make_deprecated_symbol_tag(type_.deprecation),
                       Some(constructors))

RECURSIVE definition_symbols(_)
\* The loop over module.ast.definitions of document_symbol.
definition_symbols(definitions) ==
    IF definitions = << >> THEN << >>
    ELSE LET definition == definitions[1]
             tags == make_deprecated_symbol_tag(definition.deprecation)
             pushed ==
                CASE definition.def = "Function" ->
                        << DocumentSymbol(definition.name, "FUNCTION", tags, None) >>
                  [] definition.def = "TypeAlias" ->
                        << DocumentSymbol(definition.name, "CLASS", tags, None) >>
                  [] definition.def = "CustomType" ->
                        << custom_type_symbol(definition) >>
                  [] definition.def = "Import" -> << >>
                  [] definition.def = "ModuleConstant" ->
                        << DocumentSymbol(definition.name, "CONSTANT", tags, None) >>
         IN  pushed \o definition_symbols(Tail(definitions))

\* The body of the document_symbol handler.
document_symbol(lookup) ==
    IF lookup.module = None THEN Ok(<< >>)
    ELSE Ok(definition_symbols(lookup.module[1].definitions))

DocumentSymbolRequests ==
    { [kind |-> "document_symbol", target |-> "unix", uri |-> UriOfA, engine |-> IdleEngine,
       module |-> [definitions |-> ds]] : ds \in DefinitionListsUpTo(MaxDefinitions) }
    \cup
    { [kind |-> "document_symbol", target |-> t, uri |-> u, engine |-> e,
       module |-> [definitions |-> << d >>]] :
        u \in {UriOfDirA} \cup MissUris \cup NonFileUris, e \in Engines,
        d \in { x \in Definitions : x.def = "Function" }, t \in Targets }

\* LanguageServerEngine::document_symbol
DocumentSymbols ==
    /\ request.kind = "document_symbol"
    /\ answer = Pending
    /\ LET lookup == module_for_uri(request.uri, ModuleTable(request), request.target)
       IN  answer' = IF lookup.panicked THEN Panicked
                     ELSE respond(query(request.engine, document_symbol(lookup))).response
    /\ calls' = << >>
    /\ UNCHANGED request

(***************************************************************************)
(* Hover                                                                   *)
(***************************************************************************)

\* Most definitions in the module whose expression is hovered.
MaxImports == 2

\* The module the hovered document holds.
ThisModule == "app/main"

\* Packages of the project's dependencies; hex_deps holds those from Hex.
Packages == { "gleam_stdlib", "wibble_pkg" }

\* An import statement, naming the module and the package it comes from.
Import(module, package) == [def |-> "Import", module |-> module, package |-> package]

\* The definitions of the hovered module that matter to a hover.
HoverDefinitions ==
    { Import("gleam/list", "gleam_stdlib"), Import("wibble", "wibble_pkg"),
      Import("gleam/int", "gleam_stdlib"),
      [def |-> "Function", module |-> ThisModule, package |-> "app"] }

RECURSIVE HoverDefinitionListsUpTo(_)
HoverDefinitionListsUpTo(n) ==
    IF n = 0 THEN { << >> }
    ELSE LET shorter == HoverDefinitionListsUpTo(n - 1)
         IN  shorter \cup
             { Append(l, d) : l \in { x \in shorter : Len(x) = n - 1 },
                              d \in HoverDefinitions }

\* TypedExpr, as far as get_expr_qualified_name looks at it.
TypedExpr(expr, name, importable, variant, module) ==
    [expr |-> expr, name |-> name, importable |-> importable,
     variant |-> variant, module |-> module]

\* The expressions under the cursor: a variable naming a function or a
\* constant of an imported module or of this module (then possibly private),
\* a local variable, a module select, any other expression.
Expressions ==
    { TypedExpr("Var", "map", TRUE, "ModuleFn", md) : md \in {"gleam/list", "wibble"} }
    \cup
    { TypedExpr("Var", "pi", TRUE, "ModuleConstant", "wibble"),
      TypedExpr("Var", "helper", TRUE, "ModuleFn", ThisModule),
      TypedExpr("Var", "helper", FALSE, "ModuleFn", ThisModule),
      TypedExpr("Var", "x", FALSE, "LocalVariable", ThisModule),
      TypedExpr("Int", "1", FALSE, "None", ThisModule) }
    \cup
    { TypedExpr("ModuleSelect", "map", TRUE, "None", md) : md \in {"gleam/list", "wibble"} }

\* fn get_expr_qualified_name(expression)
get_expr_qualified_name(expression) ==
    IF expression.expr = "Var" /\ expression.importable
    THEN IF expression.variant \in {"ModuleFn", "ModuleConstant"}
         THEN Some(<< expression.module, expression.name >>)
         ELSE None
    ELSE IF expression.expr = "ModuleSelect"
    THEN Some(<< expression.module, expression.name >>)
    ELSE None

\* fn format_hexdocs_link_section(package_name, module_name, name): the text,
\* as the pieces the format strings put together.
format_hexdocs_link_section(package_name, module_name, name) ==
    << "\nView on [HexDocs](", "https://hexdocs.pm/", package_name, "/",
       module_name, ".html#", name, ")" >>

RECURSIVE find_import_package(_, _, _)
\* ast.definitions.iter().find_map(...): the package of the first import of
\* the module whose package is in hex_deps.
find_import_package(definitions, module_name, hex_deps) ==
    IF definitions = << >> THEN None
    ELSE IF /\ definitions[1].def = "Import"
            /\ definitions[1].module = module_name
            /\ definitions[1].package \in hex_deps
    THEN Some(definitions[1].package)
    ELSE find_import_package(Tail(definitions), module_name, hex_deps)

\* fn get_hexdocs_link_section(module_name, name, ast, hex_deps)
get_hexdocs_link_section_any_package(module_name, name, ast, hex_deps) ==
    LET package_name == find_import_package(ast, module_name, Packages)
    IN  IF package_name = None THEN None
        ELSE Some(format_hexdocs_link_section(package_name[1], module_name, name))

get_hexdocs_link_section(module_name, name, ast, hex_deps) ==
    LET package_name == find_import_package(ast, module_name, hex_deps)
    IN  IF package_name = None THEN None
        ELSE Some(format_hexdocs_link_section(package_name[1], module_name, name))

\* lsp::Hover, without its range; the contents as the pieces of the format
\* string, the code fence written with ' for the backquote.
Hover(type_, documentation, link_section) ==
    [contents |-> << "'''gleam\n", type_, "\n'''\n", documentation >> \o link_section]

\* fn hover_for_expression(expression, line_numbers, module, hex_deps)
hover_for_expression(expression, module, hex_deps) ==
    LET qualified == get_expr_qualified_name(expression)
        link_section ==
            IF module = None \/ qualified = None THEN None
            ELSE get_hexdocs_link_section(qualified[1][1], qualified[1][2],
                                          module[1].definitions, hex_deps)
    IN  Hover("type", "documentation",
              IF link_section = None THEN << >> ELSE link_section[1])

\* fn hover_for_imported_value(value, location, line_numbers, m, name)
hover_for_imported_value(hex_module_imported_from, name) ==
    Hover("type", "documentation",
          IF hex_module_imported_from = None THEN << >>
          ELSE format_hexdocs_link_section(hex_module_imported_from[1].package,
                                           hex_module_imported_from[1].name, name))

\* A located node of a hover: its kind and what the handler reads of it.
Located(kind, expression, name, is_type) ==
    [kind |-> kind, expression |-> expression, name |-> name, is_type |-> is_type]

NoExpression == TypedExpr("None", "", FALSE, "None", ThisModule)

\* The nodes find_node can return for a hover.
HoverNodes ==
    { Located(k, NoExpression, "", FALSE) :
        k \in LocatedKinds \ {"Expression", "UnqualifiedImport"} }
    \cup { Located("Expression", e, "", FALSE) : e \in Expressions }
    \cup { Located("UnqualifiedImport", NoExpression, n, t) :
             n \in {"map", "zz"}, t \in BOOLEAN }

\* A ModuleInterface: its package, its name, its types and values.
HoverInterfaces ==
    { None } \cup
    { Some([package |-> pk, name |-> "gleam/list", types |-> {"List"},
            values |-> {"map"}]) : pk \in Packages }

\* The body of the hover handler.
hover(lookup, params) ==
    IF lookup.module = None \/ lookup.module[1].found = None THEN Ok(None)
    ELSE LET found == lookup.module[1].found[1]
         IN  Ok(CASE found.kind \in {"Statement", "FunctionBody", "TypeAlias",
                                     "CustomType", "Import"} -> None
                  [] found.kind \in {"Function", "ModuleConstant", "Pattern",
                                     "Arg", "Annotation"} ->
                        Some(Hover("type", "documentation", << >>))
                  [] found.kind = "UnqualifiedImport" ->
                        IF params.interface = None THEN None
                        ELSE IF found.is_type
                        THEN IF found.name \in params.interface[1].types
                             THEN Some(Hover("type", "documentation", << >>))
                             ELSE None
                        ELSE IF found.name \in params.interface[1].values
                        THEN Some(hover_for_imported_value(
                                 IF params.interface[1].package \in params.hex_deps
                                 THEN params.interface ELSE None,
                                 found.name))
                        ELSE None
                  [] found.kind = "Expression" ->
                        Some(hover_for_expression(found.expression,
                                 module_for_uri(params.uri, ModuleTable(params),
                                                params.target).module,
                                 params.hex_deps)))

HoverRequests ==
    { [kind |-> "hover", target |-> "unix", uri |-> UriOfA, engine |-> IdleEngine,
       module |-> [found |-> Some(Located("Expression", e, "", FALSE)),
                   definitions |-> ds],
       hex_deps |-> hd, interface |-> None] :
        e \in Expressions, ds \in HoverDefinitionListsUpTo(MaxImports),
        hd \in SUBSET Packages }
    \cup
    { [kind |-> "hover", target |-> "unix", uri |-> UriOfA, engine |-> IdleEngine,
       module |-> [found |-> f, definitions |-> << >>],
       hex_deps |-> hd, interface |-> mi] :
        f \in { None } \cup { Some(n) : n \in HoverNodes },
        hd \in { {}, {"gleam_stdlib"} }, mi \in HoverInterfaces }
    \cup
    { [kind |-> "hover", target |-> t, uri |-> u, engine |-> e,
       module |-> [found |-> Some(Located("Pattern", NoExpression, "", FALSE)),
                   definitions |-> << >>],
       hex_deps |-> {}, interface |-> None] :
        u \in {UriOfDirA} \cup MissUris \cup NonFileUris, e \in Engines, t \in Targets }
    \cup
    { [kind |-> "hover", target |-> "unix", uri |-> UriOfA, engine |-> e,
       module |-> [found |-> None, definitions |-> << >>],
       hex_deps |-> {}, interface |-> None] : e \in Engines }

\* LanguageServerEngine::hover
HoverPlease ==
    /\ request.kind = "hover"
    /\ answer = Pending
    /\ LET lookup == module_for_uri(request.uri, ModuleTable(request), request.target)
       IN  answer' = IF lookup.panicked THEN Panicked
                     ELSE respond(query(request.engine, hover(lookup, request))).response
    /\ calls' = << >>
    /\ UNCHANGED request

(***************************************************************************)
(* Goto definition                                                         *)
(***************************************************************************)

\* The text of the document of a goto_definition request, and the compiled
\* source record of the other module: its path and its text.
ThisCode == << "i", "\n", "i", "i" >>

OtherSource ==
    [path |-> << <<"proj">>, <<"src">>, <<"wibble", ".gleam">> >>,
     code |-> << "i", "i", "\n", "i" >>]

\* DefinitionLocation { module, span }
DefinitionLocation(module, span) == [module |-> module, span |-> span]

\* What node.definition_location can return: nothing, a span of this module,
\* a span of another module.
DefinitionLocations ==
    { None,
      Some(DefinitionLocation(None, SrcSpan(2, 3))),
      Some(DefinitionLocation(Some("wibble"), SrcSpan(3, 4))) }

\* What self.compiler.get_source can return for the other module.
Sources == { None, Some(OtherSource) }

\* The body of the goto_definition handler.
goto_definition(lookup, params) ==
    IF lookup.module = None \/ lookup.module[1].found = None THEN Ok(None)
    ELSE IF params.definition_location = None THEN Ok(None)
    ELSE LET location == params.definition_location[1]
         IN  IF location.module = None
             THEN Ok(Some([uri |-> params.uri,
                           range |-> src_span_to_lsp_range(location.span,
                                         LineNumbers(lookup.module[1].code))]))
             ELSE IF params.source = None THEN Ok(None)
             ELSE Ok(Some([uri |-> Uri("file", params.source[1].path),
                           range |-> src_span_to_lsp_range(location.span,
                                         LineNumbers(params.source[1].code))]))

GotoDefinitionRequests ==
    { [kind |-> "goto_definition", target |-> t, uri |-> u, engine |-> e,
       module |-> [found |-> f, code |-> ThisCode],
       definition_location |-> dl, source |-> so] :
        u \in KnownUris \cup MissUris \cup NonFileUris, e \in Engines,
        f \in { None, Some("Expression") }, dl \in DefinitionLocations,
        so \in Sources, t \in Targets }

\* LanguageServerEngine::goto_definition
GotoDefinition ==
    /\ request.kind = "goto_definition"
    /\ answer = Pending
    /\ LET lookup == module_for_uri(request.uri, ModuleTable(request), request.target)
       IN  answer' = IF lookup.panicked THEN Panicked
                     ELSE respond(query(request.engine,
                                        goto_definition(lookup, request))).response
    /\ calls' = << >>
    /\ UNCHANGED request

(***************************************************************************)
(* Specifications                                                          *)
(***************************************************************************)
vars == <<engineVars, gitVars, queryVars>>

QueryIdle == request = NoRequest /\ answer = Pending /\ calls = << >>

Init == EngineInit /\ GitInit /\ QueryIdle

Next ==
    \/ (New /\ UNCHANGED <<gitVars, queryVars>>)
    \/ (CompilePlease /\ UNCHANGED <<gitVars, queryVars>>)
    \/ (Query /\ UNCHANGED <<gitVars, queryVars>>)

Spec == Init /\ [][Next]_vars

NextGit ==
    \/ (DownloadGitPackages /\ UNCHANGED <<engineVars, queryVars>>)
    \/ (EnsureGitPackage /\ UNCHANGED <<engineVars, queryVars>>)
    \/ (StepClone /\ UNCHANGED <<engineVars, queryVars>>)
    \/ (StepCatFile /\ UNCHANGED <<engineVars, queryVars>>)
    \/ (StepFetch /\ UNCHANGED <<engineVars, queryVars>>)
    \/ (StepCheckout /\ UNCHANGED <<engineVars, queryVars>>)
    \/ (Return /\ UNCHANGED <<engineVars, queryVars>>)

SpecGit == Init /\ [][NextGit]_vars

\* One code_actions request on a constructed engine.
InitCodeActions ==
    /\ EngineInit
    /\ GitInit
    /\ request \in CodeActionRequests
    /\ answer = Pending
    /\ calls = << >>

NextCodeActions == CodeActions /\ UNCHANGED <<engineVars, gitVars>>

SpecCodeActions == InitCodeActions /\ [][NextCodeActions]_vars

\* The code_actions requests that miss, and those for an empty document.
CodeActionMisses ==
    { r \in CodeActionRequests : r.uri # UriOfA \/ r.module.code = << >> }

\* One request of any kind on a constructed engine.
InitQuery ==
    /\ EngineInit
    /\ GitInit
    /\ request \in CompletionRequests \cup CodeActionMisses \cup DocumentSymbolRequests
                   \cup HoverRequests \cup GotoDefinitionRequests
    /\ answer = Pending
    /\ calls = << >>

NextQuery ==
    \/ (Completion /\ UNCHANGED <<engineVars, gitVars>>)
    \/ (CodeActions /\ UNCHANGED <<engineVars, gitVars>>)
    \/ (DocumentSymbols /\ UNCHANGED <<engineVars, gitVars>>)
    \/ (HoverPlease /\ UNCHANGED <<engineVars, gitVars>>)
    \/ (GotoDefinition /\ UNCHANGED <<engineVars, gitVars>>)

SpecQuery == InitQuery /\ [][NextQuery]_vars

(***************************************************************************)
(* Properties of the engine (checked under Spec)                           *)
(***************************************************************************)

\* C1: when two responses are produced in a row and the second one's request
\* does not compile, the second response reports Compilation::No, that is
\* no change and an empty module list.
DrainIdempotence ==
    (nRequests >= 2 /\ lastRequest \in QueryKinds) =>
        /\ lastResponse.compilation.tag = "No"
        /\ lastResponse.compilation.modules = << >>

\* A query answered right after a compile_please that returned modules.
DrainIdempotenceWitness ==
    /\ nRequests >= 2
    /\ prevRequest = "compile_please"
    /\ lastRequest = "hover"
    /\ returned # << >>
    /\ lastResponse.compilation = CompilationNo

\* C2: the module paths listed by the responses so far are, in order, exactly
\* the module paths the compiler returned so far, so each is listed by one
\* response and by no later one; nothing is pending after a response.
ModulesReportedExactlyOnce ==
    engine # NoEngine =>
        /\ reported = returned
        /\ engine.modules_compiled_since_last_feedback = << >>
        /\ lastRequest = "compile_please" =>
               lastResponse.compilation.modules = lastOutcome.modules

\* Two compiles returned modules, the later one followed by a query.
ModulesReportedExactlyOnceWitness ==
    /\ nRequests = 3
    /\ Len(returned) = 3
    /\ lastRequest \in QueryKinds
    /\ reported = returned

\* C3: the warnings listed by the responses so far are exactly the warnings the
\* compiler accumulated so far, and the backlog is empty after every response,
\* whatever the request kind and whether the result is Ok or Err.
WarningsDrainedByEveryResponse ==
    engine # NoEngine =>
        /\ delivered = emitted
        /\ engine.compiler_warnings = << >>
        /\ lastRequest = "compile_please" => lastResponse.warnings = lastOutcome.warnings
        /\ lastRequest \in QueryKinds => lastResponse.warnings = << >>

\* A response whose result is Err carried the warnings of a failed compile,
\* after an earlier response, and left the backlog empty.
WarningsDrainedByEveryResponseWitness ==
    /\ nRequests >= 2
    /\ lastRequest = "compile_please"
    /\ lastResponse.result.tag = "Err"
    /\ Len(lastResponse.warnings) = 2
    /\ engine.compiler_warnings = << >>
    /\ delivered = emitted

\* C4: the response of a compile_please whose compilation fails has the
\* compiler's error as result, the warnings accumulated up to the failure and
\* Compilation::Yes with the module paths compiled before the failure.
FailedCompileStillFullEnvelope ==
    (lastRequest = "compile_please" /\ lastOutcome.kind # "Ok") =>
        /\ lastResponse.result = Err(lastOutcome.error)
        /\ lastResponse.warnings = lastOutcome.warnings
        /\ lastResponse.compilation = CompilationYes(lastOutcome.modules)
        /\ reported = returned

\* A partial failure that compiled two modules and produced warnings.
FailedCompileStillFullEnvelopeWitness ==
    /\ lastRequest = "compile_please"
    /\ lastOutcome.kind = "PartialFailure"
    /\ Len(lastOutcome.modules) = 2
    /\ lastOutcome.warnings # << >>
    /\ lastResponse.result.tag = "Err"
    /\ lastResponse.compilation.modules = lastOutcome.modules

\* C5 as stated: a response reports Compilation::Yes only with a non-empty
\* list of recompiled module paths, and not for a compile that failed.
YesOnlyWithRecompiledModules ==
    (lastResponse # NoResponse /\ lastResponse.compilation.tag = "Yes") =>
        /\ lastResponse.compilation.modules # << >>
        /\ lastResponse.result.tag = "Ok"

\* C5 amended: the flag is set when a compile is attempted, whatever its
\* outcome: the response of every compile_please reports Compilation::Yes with
\* the module paths the compiler returned, an empty list when it returned none
\* or failed totally.
YesWheneverCompileAttempted ==
    lastRequest = "compile_please" =>
        /\ lastResponse.compilation.tag = "Yes"
        /\ lastResponse.compilation.modules = lastOutcome.modules
        /\ ~engine.compiled_since_last_feedback

\* A compile that failed totally is answered with Compilation::Yes([]).
YesWheneverCompileAttemptedWitness ==
    /\ lastRequest = "compile_please"
    /\ lastOutcome.kind = "TotalFailure"
    /\ lastResponse.compilation = CompilationYes(<< >>)

\* C6: a request that does not compile is answered with Compilation::No and
\* leaves the flag false and the pending list empty; Compilation::No is
\* reported exactly by the responses of the requests that do not compile.
QueriesReportNoCompilation ==
    lastResponse # NoResponse =>
        /\ lastRequest \in QueryKinds =>
               /\ lastResponse.compilation = CompilationNo
               /\ ~engine.compiled_since_last_feedback
               /\ engine.modules_compiled_since_last_feedback = << >>
        /\ (lastResponse.compilation.tag = "No") <=> (lastRequest # "compile_please")

\* A document_symbol answered after two compiles.
QueriesReportNoCompilationWitness ==
    /\ nRequests = 3
    /\ lastRequest = "document_symbol"
    /\ prevRequest = "compile_please"
    /\ Len(returned) >= 2
    /\ lastResponse.compilation = CompilationNo

\* C7: `new` fails with the error of the first of make_locker,
\* download_dependencies and LspProjectCompiler::new that fails; when
\* download_dependencies fails no compiler is constructed; a failed `new`
\* returns no engine.
ConstructionFailsWhole ==
    newCall # NoCall =>
        /\ newCall.locker = "Err" => newCall.result = Err("locker_error")
        /\ (newCall.locker = "Ok" /\ newCall.download = "Err") =>
               /\ newCall.result = Err("download_error")
               /\ \A i \in DOMAIN trace : trace[i] # "LspProjectCompiler::new"
        /\ (newCall.locker = "Ok" /\ newCall.download = "Ok" /\ newCall.compilerNew = "Err") =>
               newCall.result = Err("compiler_error")
        /\ (newCall.result.tag = "Err") <=>
               ("Err" \in {newCall.locker, newCall.download, newCall.compilerNew})
        /\ newCall.result.tag = "Err" => engine = NoEngine

\* download_dependencies failed where the compiler's construction would have
\* failed too.
ConstructionFailsWholeWitness ==
    /\ newCall # NoCall
    /\ newCall.locker = "Ok"
    /\ newCall.download = "Err"
    /\ newCall.compilerNew = "Err"
    /\ newCall.result = Err("download_error")
    /\ engine = NoEngine

(***************************************************************************)
(* Properties of the downloader (checked under SpecGit)                    *)
(***************************************************************************)

\* The futures that are past ensure_package_repository_cloned.
PastClone == { i \in DOMAIN futures : futures[i].pc # "clone" }

Finished == { i \in DOMAIN futures : futures[i].pc = "done" }

\* C8: when the package's directory exists no clone is executed and
\* ensure_package_repository_cloned returns false; the clone is executed, first
\* and once, only when the directory is absent; a clone that succeeds gives
\* true, a clone that fails gives the error and no further command.
CloneOnlyWhenAbsent ==
    \A i \in PastClone :
        LET f == futures[i]
        IN  /\ f.was_directory =>
                /\ f.clone = "skipped"
                /\ ~f.cloned
                /\ \A k \in DOMAIN f.commands : f.commands[k] # "clone"
            /\ ~f.was_directory =>
                /\ f.clone \in ExecResults
                /\ f.commands[1] = "clone"
                /\ \A k \in DOMAIN f.commands : k > 1 => f.commands[k] # "clone"
            /\ f.clone = "Zero" => f.cloned
            /\ f.clone = "Err" =>
                /\ f.pc = "done"
                /\ f.result = Err(<<"clone", f.name>>)
                /\ f.commands = <<"clone">>

\* A call found the directory of an earlier call's clone and did not clone.
CloneOnlyWhenAbsentWitness ==
    /\ nCalls = 2
    /\ \E i \in Finished :
         /\ futures[i].was_directory
         /\ futures[i].clone = "skipped"
         /\ futures[i].commit = "None"
         /\ futures[i].commands = << >>
         /\ futures[i].result = Ok(<<"false">>)

\* The finished invocations with a revision that found the repository cloned
\* and its HEAD detached at that revision.
AtRevision ==
    { i \in Finished : /\ futures[i].was_directory
                       /\ futures[i].commit # "None"
                       /\ futures[i].head_before = futures[i].commit }

\* C9 as stated: invoked for a repository already cloned and detached at the
\* requested revision, the call executes no checkout and returns false.
CheckoutSkippedAtRevision ==
    \A i \in AtRevision :
        /\ \A k \in DOMAIN futures[i].commands : futures[i].commands[k] # "checkout"
        /\ futures[i].result = Ok(<<"false">>)

\* C9 amended: invoked with a revision for a repository already cloned and
\* detached at that revision, the call skips the clone only: it runs git
\* cat-file, git fetch when that does not report the commit, and git checkout
\* again, and returns true, or the error of a fetch or checkout that could not
\* be run.  A call returns false exactly when the directory exists and no
\* revision is requested.
CheckoutRepeatedAtRevision ==
    /\ \A i \in AtRevision :
        LET f == futures[i]
        IN  /\ f.clone = "skipped"
            /\ Len(f.commands) >= 2
            /\ f.commands[1] = "cat-file"
            /\ \/ /\ f.result = Ok(<<"true">>)
                  /\ f.commands[Len(f.commands)] = "checkout"
               \/ /\ f.result.tag = "Err"
                  /\ f.result.value[1] \in {"fetch", "checkout"}
                  /\ f.commands[Len(f.commands)] = f.result.value[1]
    /\ \A i \in Finished :
        (futures[i].result = Ok(<<"false">>)) <=>
            (futures[i].was_directory /\ futures[i].commit = "None")

\* The second of two invocations for the same revision checked out again.
CheckoutRepeatedAtRevisionWitness ==
    /\ nCalls = 2
    /\ \E i \in AtRevision :
         /\ futures[i].commands = <<"cat-file", "checkout">>
         /\ futures[i].result = Ok(<<"true">>)
         /\ repositories[futures[i].name].head = futures[i].commit

\* The lowest-numbered future that failed, 0 if none did.
FirstFailed ==
    IF \E i \in DOMAIN futures : futures[i].result.tag = "Err"
    THEN CHOOSE i \in DOMAIN futures :
            /\ futures[i].result.tag = "Err"
            /\ \A j \in DOMAIN futures : j < i => futures[j].result.tag # "Err"
    ELSE 0

\* C10: download_git_packages, given git packages, has one retrieval per
\* package other than the root project, in the order given; it returns only
\* when every retrieval has finished, with Ok when all succeeded and otherwise
\* the error of the first failed one; a retrieval runs to its end whatever the
\* others did, and only clone, cat-file, fetch and checkout are executed.
DownloadJoinsAll ==
    (download.kind = "download_git_packages" /\ download.status # "panicked") =>
        /\ Len(futures) =
               Cardinality({ k \in DOMAIN download.packages :
                               download.packages[k].name # download.project_name })
        /\ \A k \in DOMAIN download.packages :
               (download.packages[k].name # download.project_name) <=>
                   (\E i \in DOMAIN futures :
                       /\ futures[i].name = download.packages[k].name
                       /\ futures[i].commit = download.packages[k].commit)
        /\ \A i, j \in DOMAIN futures, k, l \in DOMAIN download.packages :
               (/\ futures[i].name = download.packages[k].name
                /\ futures[j].name = download.packages[l].name
                /\ i < j) => k < l
        /\ \A i \in DOMAIN futures : \A k \in DOMAIN futures[i].commands :
               futures[i].commands[k] \in {"clone", "cat-file", "fetch", "checkout"}
        /\ download.status = "returned" =>
               /\ \A i \in DOMAIN futures :
                      /\ futures[i].pc = "done"
                      /\ futures[i].result.tag \in {"Ok", "Err"}
               /\ (download.result = Ok(<<"unit">>)) <=> (FirstFailed = 0)
               /\ FirstFailed # 0 => download.result = futures[FirstFailed].result

\* The first retrieval failed, the second one still ran to a checkout, and the
\* call returned the first one's error.
DownloadJoinsAllWitness ==
    /\ download.kind = "download_git_packages"
    /\ download.status = "returned"
    /\ Len(futures) = 2
    /\ futures[1].result.tag = "Err"
    /\ futures[2].result = Ok(<<"true">>)
    /\ repositories[futures[2].name].head = futures[2].commit
    /\ download.result = futures[1].result

\* The commands a retrieval executed after its clone step.
AfterClone(f) == IF f.clone \in ExecResults THEN Tail(f.commands) ELSE f.commands

\* C18: with a revision requested, git cat-file is the first command after the
\* clone step; git fetch is executed exactly when cat-file failed or exited
\* non-zero, and then before the checkout; a fetch that fails returns its error
\* and no checkout is executed; when cat-file reports the commit no fetch is
\* executed.
FetchOnlyWhenCommitUnknown ==
    \A i \in PastClone :
        LET f == futures[i]
            rest == AfterClone(f)
        IN  (f.commit # "None" /\ f.clone # "Err") =>
                /\ f.pc = "cat-file" => rest = << >>
                /\ f.pc = "fetch" =>
                       /\ rest = <<"cat-file">>
                       /\ f.cat_file \in {"Err", "NonZero"}
                /\ f.pc = "checkout" =>
                       \/ rest = <<"cat-file">> /\ f.cat_file = "Zero"
                       \/ rest = <<"cat-file", "fetch">> /\ f.cat_file \in {"Err", "NonZero"}
                /\ (f.pc = "done" /\ f.result = Err(<<"fetch", f.name>>)) =>
                       /\ rest = <<"cat-file", "fetch">>
                       /\ f.cat_file \in {"Err", "NonZero"}
                /\ (f.pc = "done" /\ f.result # Err(<<"fetch", f.name>>)) =>
                       \/ rest = <<"cat-file", "checkout">> /\ f.cat_file = "Zero"
                       \/ /\ rest = <<"cat-file", "fetch", "checkout">>
                          /\ f.cat_file \in {"Err", "NonZero"}

\* cat-file exited non-zero, the fetch brought the commit and the checkout
\* detached HEAD at it.
FetchOnlyWhenCommitUnknownWitness ==
    \E i \in Finished :
        /\ futures[i].cat_file = "NonZero"
        /\ AfterClone(futures[i]) = <<"cat-file", "fetch", "checkout">>
        /\ futures[i].result = Ok(<<"true">>)
        /\ repositories[futures[i].name].head = futures[i].commit

(***************************************************************************)
(* Progress notifications (checked under Spec)                             *)
(***************************************************************************)

\* Position k of the trace holds a started notification that no later position
\* closes with the finished notification of the same kind.
Unclosed(t, started, finished) ==
    \E k \in DOMAIN t :
        /\ t[k] = started
        /\ \A l \in DOMAIN t : l > k => t[l] # finished

Before(t, a, b) ==
    \A k, l \in DOMAIN t : (t[k] = a /\ t[l] = b) => k < l

ProgressEvents ==
    {"dependency_downloading_started", "dependency_downloading_finished",
     "compilation_started", "compilation_finished"}

\* C19: in the calls made by `new` and by every request, a started
\* notification is followed by its finished notification: downloading finished
\* comes before the compiler is constructed and is emitted also when the
\* download fails, no notification is emitted when the locker cannot be made,
\* and compilation finished comes before the response is assembled, also when
\* the compiler fails.
ProgressBracketed ==
    /\ ~Unclosed(trace, "dependency_downloading_started", "dependency_downloading_finished")
    /\ ~Unclosed(trace, "compilation_started", "compilation_finished")
    /\ Before(trace, "dependency_downloading_started", "download_dependencies")
    /\ Before(trace, "download_dependencies", "dependency_downloading_finished")
    /\ Before(trace, "dependency_downloading_finished", "LspProjectCompiler::new")
    /\ Before(trace, "compilation_started", "compiler.compile")
    /\ Before(trace, "compiler.compile", "compilation_finished")
    /\ Before(trace, "compilation_finished", "take_warnings")
    /\ (newCall # NoCall /\ nRequests = 0 /\ newCall.locker = "Err") =>
           \A k \in DOMAIN trace : trace[k] \notin ProgressEvents
    /\ (newCall # NoCall /\ nRequests = 0 /\ newCall.locker = "Ok") =>
           \E k \in DOMAIN trace : trace[k] = "dependency_downloading_finished"
    /\ lastRequest = "compile_please" =>
           \E k \in DOMAIN trace : trace[k] = "compilation_finished"

\* A compile that failed totally, its notifications closed before the response.
ProgressBracketedWitness ==
    /\ lastRequest = "compile_please"
    /\ lastOutcome.kind = "TotalFailure"
    /\ trace = <<"compilation_started", "compiler.compile", "compilation_finished",
                 "take_warnings">>
    /\ newCall.result.tag = "Ok"

(***************************************************************************)
(* Code actions: what the claims speak of, stated on the text itself       *)
(***************************************************************************)

\* An offset at which a line begins: the start of the text, or the offset
\* after a line terminator.
IsLineStart(text, offset) ==
    offset = 0 \/ (offset \in 1..Len(text) /\ text[offset] = "\n")

\* The zero-based line and character of an offset of the text.
PositionOf(text, offset) ==
    LET terminators == { i \in 1..offset : i <= Len(text) /\ text[i] = "\n" }
        line_start == IF terminators = {} THEN 0
                      ELSE CHOOSE i \in terminators : \A j \in terminators : j <= i
    IN  Position(Cardinality(terminators), offset - line_start)

\* p lies in the closed-open span of r.
InSpan(p, r) ==
    /\ r.start = p \/ PositionLess(r.start, p)
    /\ PositionLess(p, r.end)

EitherEndpointInside(a, b) ==
    InSpan(a.start, b) \/ InSpan(a.end, b) \/ InSpan(b.start, a) \/ InSpan(b.end, a)

\* The range deleted for an unused import: extended by one byte exactly when
\* the span starts at a line start and the offset after its end is one too.
DeletionEnd(text, span) ==
    IF IsLineStart(text, span.start) /\ IsLineStart(text, span.end + 1)
    THEN span.end + 1 ELSE span.end

DeletionRange(text, span) ==
    Range(PositionOf(text, span.start), PositionOf(text, DeletionEnd(text, span)))

\* A code_actions request for a document of a known module has been answered.
CodeActionsAnswered ==
    /\ request.kind = "code_actions"
    /\ request.uri \in KnownUris
    /\ answer \notin {Pending, Panicked}

\* The actions of the answer, none when the answer holds no list.
AnsweredActions ==
    IF answer.result.value = None THEN << >> ELSE answer.result.value[1]

RemoveUnusedImports ==
    SelectSeq(AnsweredActions, LAMBDA a : a.title = "Remove unused imports")

UnusedImportUnderCursor ==
    \E k \in DOMAIN request.module.unused_imports :
        EitherEndpointInside(request.range,
            DeletionRange(request.module.code, request.module.unused_imports[k]))

\* C11: "Remove unused imports" is offered exactly when the module has an
\* unused import whose deletion range overlaps the requested range; it is then
\* one preferred quick fix holding one empty-text edit per unused import, also
\* those away from the cursor, in ascending order of start position.
RemoveUnusedImportsOffered ==
    CodeActionsAnswered =>
        LET unused == request.module.unused_imports
            text == request.module.code
        IN  /\ (RemoveUnusedImports # << >>) <=> UnusedImportUnderCursor
            /\ RemoveUnusedImports # << >> =>
                 LET action == RemoveUnusedImports[1]
                 IN  /\ Len(RemoveUnusedImports) = 1
                     /\ action.kind = "quickfix"
                     /\ action.is_preferred
                     /\ action.uri = request.uri
                     /\ Len(action.edits) = Len(unused)
                     /\ \A i \in DOMAIN action.edits : action.edits[i].new_text = ""
                     /\ \A k \in DOMAIN unused :
                          Cardinality({ i \in DOMAIN action.edits :
                              action.edits[i].range = DeletionRange(text, unused[k]) })
                          = Cardinality({ j \in DOMAIN unused :
                              DeletionRange(text, unused[j]) = DeletionRange(text, unused[k]) })
                     /\ \A i, j \in DOMAIN action.edits :
                          i < j => ~PositionLess(action.edits[j].range.start,
                                                 action.edits[i].range.start)

\* Two unused imports listed out of order, only one of them under the cursor,
\* are both deleted, the earlier one first, next to an action of another kind.
RemoveUnusedImportsOfferedWitness ==
    /\ CodeActionsAnswered
    /\ RemoveUnusedImports # << >>
    /\ Len(request.module.unused_imports) = 2
    /\ request.module.unused_imports[2].start < request.module.unused_imports[1].start
    /\ \E k \in DOMAIN request.module.unused_imports :
         ~EitherEndpointInside(request.range,
             DeletionRange(request.module.code, request.module.unused_imports[k]))
    /\ request.redundant # << >>

\* The spans share no byte.
DisjointSpans(a, b) == a.end <= b.start \/ b.end <= a.start

\* The import fills its line: nothing precedes it on the line and the byte
\* after it is the line terminator.
AloneOnLine(text, span) ==
    /\ span.start = 0 \/ text[span.start] = "\n"
    /\ span.end < Len(text)
    /\ text[span.end + 1] = "\n"

\* The position at which the deletion of an unused import has to end.
ExpectedEnd(text, span) ==
    IF AloneOnLine(text, span)
    THEN Position(PositionOf(text, span.end).line + 1, 0)
    ELSE PositionOf(text, span.end)

\* The action has been offered for the request.
RemoveUnusedImportsAnswered ==
    CodeActionsAnswered /\ RemoveUnusedImports # << >>

\* C12: the edit of an unused import [start, end) covers [start, end + 1)
\* exactly when start and end + 1 are both line starts, and [start, end)
\* otherwise: an import alone on its line goes with its line terminator, one
\* that shares its line or has no terminator after it goes without extension.
WholeLineDeletedExactlyWhenAlone ==
    RemoveUnusedImportsAnswered =>
        LET unused == request.module.unused_imports
            text == request.module.code
            edits == RemoveUnusedImports[1].edits
        IN  /\ \A k \in DOMAIN unused :
                 /\ AloneOnLine(text, unused[k]) <=>
                      (IsLineStart(text, unused[k].start)
                         /\ IsLineStart(text, unused[k].end + 1))
                 /\ \E i \in DOMAIN edits :
                      /\ edits[i].range.start = PositionOf(text, unused[k].start)
                      /\ edits[i].range.end = ExpectedEnd(text, unused[k])
            /\ \A i \in DOMAIN edits :
                 \E k \in DOMAIN unused :
                      /\ edits[i].range.start = PositionOf(text, unused[k].start)
                      /\ edits[i].range.end = ExpectedEnd(text, unused[k])

\* One action deletes an import alone on its line up to the start of the next
\* line, and an import on the last, unterminated line without extension.
WholeLineDeletedExactlyWhenAloneWitness ==
    /\ RemoveUnusedImportsAnswered
    /\ \E k, l \in DOMAIN request.module.unused_imports :
         LET text == request.module.code
             alone == request.module.unused_imports[k]
             last == request.module.unused_imports[l]
         IN  /\ AloneOnLine(text, alone)
             /\ DisjointSpans(alone, last)
             /\ last.end = Len(text)
             /\ IsLineStart(text, last.start)
             /\ \E i, j \in DOMAIN RemoveUnusedImports[1].edits :
                  LET edits == RemoveUnusedImports[1].edits
                  IN  /\ edits[i].range = Range(PositionOf(text, alone.start),
                                                PositionOf(text, alone.end + 1))
                      /\ edits[i].range.end.line = edits[i].range.start.line + 1
                      /\ edits[j].range = Range(PositionOf(text, last.start),
                                                PositionOf(text, last.end))

\* The position p is at or before q.
PositionAtMost(p, q) == ~PositionLess(q, p)

DisjointRanges(a, b) == PositionAtMost(a.end, b.start) \/ PositionAtMost(b.end, a.start)

\* The unused imports of the request are pairwise non-overlapping spans of
\* the source text.
SeparateImports ==
    LET unused == request.module.unused_imports
    IN  /\ \A k \in DOMAIN unused : unused[k].end <= Len(request.module.code)
        /\ \A k, l \in DOMAIN unused : k # l => DisjointSpans(unused[k], unused[l])

\* C13: for pairwise non-overlapping unused imports within the text, no edit,
\* its one-byte extension included, reaches into the span of another unused
\* import or past the end of the text, and the edits of the action are
\* pairwise non-overlapping.
NoDanglingEdit ==
    (RemoveUnusedImportsAnswered /\ SeparateImports) =>
        LET unused == request.module.unused_imports
            text == request.module.code
            edits == RemoveUnusedImports[1].edits
        IN  /\ \A i \in DOMAIN edits :
                 /\ PositionAtMost(edits[i].range.end, PositionOf(text, Len(text)))
                 /\ \A k \in DOMAIN unused :
                      \/ edits[i].range.start = PositionOf(text, unused[k].start)
                      \/ DisjointRanges(edits[i].range,
                             Range(PositionOf(text, unused[k].start),
                                   PositionOf(text, unused[k].end)))
            /\ \A i, j \in DOMAIN edits :
                 i # j => DisjointRanges(edits[i].range, edits[j].range)

\* An import alone on its line is deleted with its terminator, and the unused
\* import that begins the next line is left whole.
NoDanglingEditWitness ==
    /\ RemoveUnusedImportsAnswered
    /\ SeparateImports
    /\ \E k, l \in DOMAIN request.module.unused_imports :
         LET text == request.module.code
             unused == request.module.unused_imports
         IN  /\ AloneOnLine(text, unused[k])
             /\ unused[l].start = unused[k].end + 1
             /\ \E i \in DOMAIN RemoveUnusedImports[1].edits :
                  /\ RemoveUnusedImports[1].edits[i].range.start
                       = PositionOf(text, unused[k].start)
                  /\ RemoveUnusedImports[1].edits[i].range.end
                       = PositionOf(text, unused[l].start)

(***************************************************************************)
(* Completion claims                                                       *)
(***************************************************************************)

\* A completion request for a document of a known module has been answered.
CompletionAnswered ==
    /\ request.kind = "completion"
    /\ request.uri \in KnownUris
    /\ answer \notin {Pending, Panicked}

\* The kinds of the completion items of the answer.
AnsweredItemKinds ==
    IF answer.result.tag = "Ok" /\ answer.result.value # None
    THEN { answer.result.value[1][k].kind : k \in DOMAIN answer.result.value[1] }
    ELSE {}

\* C14: import completions are attempted first and, when produced, are the
\* whole result, with no node lookup and no other completer called; otherwise
\* the located node selects values, types or the imported module's exports,
\* and patterns, arguments, module constants and unqualified imports give
\* no completions.
ImportCompletionsFirst ==
    CompletionAnswered =>
        LET found == request.module.found
        IN  /\ calls # << >> /\ calls[1] = "import_completions"
            /\ request.import_completions # None =>
                 /\ answer.result = request.import_completions[1]
                 /\ calls = << "import_completions" >>
                 /\ AnsweredItemKinds \subseteq {"module"}
            /\ request.import_completions = None =>
                 /\ Len(calls) >= 2 /\ calls[2] = "find_node"
                 /\ found = None => answer.result = Ok(None)
                 /\ found # None =>
                      /\ found[1] \in {"Statement", "Expression", "FunctionBody"} =>
                           /\ answer.result.value # None
                           /\ AnsweredItemKinds = {"value"}
                      /\ found[1] \in {"Function", "TypeAlias", "CustomType", "Annotation"} =>
                           /\ answer.result.value # None
                           /\ AnsweredItemKinds = {"type"}
                      /\ (found[1] = "Import" /\ request.interface # None) =>
                           /\ answer.result.value # None
                           /\ AnsweredItemKinds = {"unqualified"}
                           /\ [k \in DOMAIN answer.result.value[1] |->
                                 answer.result.value[1][k].label] = request.interface[1]
                      /\ found[1] \in {"Pattern", "Arg", "ModuleConstant", "UnqualifiedImport"} =>
                           /\ answer.result = Ok(None)
                           /\ Len(calls) = 2

\* An import is being written in a file whose cursor is also on an
\* expression: the answer holds the import completions only.
ImportCompletionsFirstWitness ==
    /\ CompletionAnswered
    /\ request.module.found = Some("Expression")
    /\ request.import_completions # None
    /\ AnsweredItemKinds = {"module"}
    /\ calls = << "import_completions" >>

(***************************************************************************)
(* Document symbol claims                                                  *)
(***************************************************************************)

\* A document_symbol request for a document of a known module has been
\* answered.
DocumentSymbolAnswered ==
    /\ request.kind = "document_symbol"
    /\ request.uri \in KnownUris
    /\ answer \notin {Pending, Panicked}

\* The sequence of the names of a sequence of symbols or definitions.
Names(items) == [k \in DOMAIN items |-> items[k].name]

\* The labels of the labeled arguments, in argument order.
Labels(arguments) ==
    LET labeled == SelectSeq(arguments, LAMBDA a : a.label # None)
    IN  [k \in DOMAIN labeled |-> labeled[k].label[1]]

\* C15: the answer holds, in declaration order, one root symbol per function,
\* type alias, custom type and module constant and none per import; a custom
\* type has one child per constructor in order, a constructor one field per
\* labeled argument in order and none per unlabeled one; a root is tagged
\* deprecated exactly when its definition is deprecated.
SymbolTreeMirrorsDefinitions ==
    DocumentSymbolAnswered =>
        LET declared == SelectSeq(request.module.definitions,
                                  LAMBDA d : d.def # "Import")
            roots == answer.result.value
        IN  /\ answer.result.tag = "Ok"
            /\ Names(roots) = Names(declared)
            /\ \A i \in DOMAIN roots :
                 /\ (roots[i].tags # None) <=> (declared[i].deprecation = "Deprecated")
                 /\ roots[i].tags # None => roots[i].tags = Some(<< "DEPRECATED" >>)
                 /\ declared[i].def # "CustomType" => roots[i].children = None
                 /\ declared[i].def = "CustomType" =>
                      /\ roots[i].children # None
                      /\ Names(roots[i].children[1]) = Names(declared[i].constructors)
                      /\ \A j \in DOMAIN roots[i].children[1] :
                           LET child == roots[i].children[1][j]
                           IN  /\ child.children # None
                               /\ Names(child.children[1])
                                    = Labels(declared[i].constructors[j].arguments)
                               /\ \A g \in DOMAIN child.children[1] :
                                    child.children[1][g].kind = "FIELD"

\* After an import, a deprecated custom type with two constructors, one of
\* them with two labeled arguments around an unlabeled one: one root, tagged,
\* two children, two fields under the first.
SymbolTreeMirrorsDefinitionsWitness ==
    /\ DocumentSymbolAnswered
    /\ Len(request.module.definitions) = 2
    /\ request.module.definitions[1].def = "Import"
    /\ request.module.definitions[2].def = "CustomType"
    /\ Len(answer.result.value) = 1
    /\ answer.result.value[1].tags = Some(<< "DEPRECATED" >>)
    /\ Names(answer.result.value[1].children[1]) = << "B", "A" >>
    /\ Names(answer.result.value[1].children[1][1].children[1]) = << "x", "y" >>
    /\ answer.result.value[1].children[1][2].children = Some(<< >>)

(***************************************************************************)
(* Hover claims                                                            *)
(***************************************************************************)

\* A hover over an expression of a known module has been answered.
ExpressionHoverAnswered ==
    /\ request.kind = "hover"
    /\ request.uri \in KnownUris
    /\ answer \notin {Pending, Panicked}
    /\ request.module.found # None
    /\ request.module.found[1].kind = "Expression"

\* The expression names a member of a module: a function or a constant of a
\* module by its name, or a member selected from a module.
RefersToModuleMember(e) ==
    \/ e.expr = "Var" /\ e.variant \in {"ModuleFn", "ModuleConstant"}
    \/ e.expr = "ModuleSelect"

\* The pieces of the answered hover text.
HoverText == answer.result.value[1].contents

\* The text ends with the link to the member of the module in the package.
EndsWithLink(text, package, module, name) ==
    /\ Len(text) >= 8
    /\ SubSeq(text, Len(text) - 7, Len(text))
         = << "\nView on [HexDocs](", "https://hexdocs.pm/", package, "/", module,
              ".html#", name, ")" >>

\* The text holds a link to hexdocs.pm somewhere.
HoldsLink(text) == \E k \in DOMAIN text : text[k] = "https://hexdocs.pm/"

\* C16: the hover text of an expression naming member `name` of module
\* `module` ends with https://hexdocs.pm/<package>/<module>.html#<name>
\* exactly when the hovered module imports `module` from a package in
\* hex_deps, <package> being that import's package; otherwise it holds no link.
HexdocsLinkExactlyForHexImports ==
    (ExpressionHoverAnswered /\ RefersToModuleMember(request.module.found[1].expression)) =>
        LET e == request.module.found[1].expression
            defs == request.module.definitions
            hexImports == { k \in DOMAIN defs :
                              /\ defs[k].def = "Import"
                              /\ defs[k].module = e.module
                              /\ defs[k].package \in request.hex_deps }
        IN  /\ answer.result.tag = "Ok" /\ answer.result.value # None
            /\ hexImports # {} =>
                 \E k \in hexImports :
                    EndsWithLink(HoverText, defs[k].package, e.module, e.name)
            /\ hexImports = {} => ~HoldsLink(HoverText)

\* gleam/list is imported from a Hex package and wibble from one that is not
\* in hex_deps: hovering list.map gives the link to gleam_stdlib.
HexdocsLinkExactlyForHexImportsWitness ==
    /\ ExpressionHoverAnswered
    /\ request.module.found[1].expression.expr = "ModuleSelect"
    /\ request.module.found[1].expression.module = "gleam/list"
    /\ request.module.definitions
         = << Import("wibble", "wibble_pkg"), Import("gleam/list", "gleam_stdlib") >>
    /\ request.hex_deps = {"gleam_stdlib"}
    /\ EndsWithLink(HoverText, "gleam_stdlib", "gleam/list", "map")

(***************************************************************************)
(* Resolution misses                                                       *)
(***************************************************************************)

\* A request has been received and its handling has ended.
Handled == request # NoRequest /\ answer # Pending

\* The handler looks for the node at the position.
LooksForNode ==
    \/ request.kind \in {"hover", "goto_definition"}
    \/ request.kind = "completion" /\ request.import_completions = None

\* The request is a resolution miss: its URI maps to no known module, or no
\* node encloses its position, or the node has no definition location, or
\* the definition lies in another module whose source record is unavailable.
ResolutionMiss ==
    \/ request.uri \notin KnownUris
    \/ LooksForNode /\ request.module.found = None
    \/ /\ request.kind = "goto_definition"
       /\ \/ request.definition_location = None
          \/ /\ request.definition_location[1].module # None
             /\ request.source = None

\* The absent result of the handler of the request.
AbsentResult == IF request.kind = "document_symbol" THEN Ok(<< >>) ELSE Ok(None)

\* The compilation feedback the engine of the request owes.
FeedbackOwed ==
    IF request.engine.compiled_since_last_feedback
    THEN CompilationYes(request.engine.modules_compiled_since_last_feedback)
    ELSE CompilationNo

\* The answer is the envelope of an absent result.
AbsentInEnvelope ==
    /\ answer # Panicked
    /\ answer.result = AbsentResult
    /\ answer.warnings = request.engine.compiler_warnings
    /\ answer.compilation = FeedbackOwed

\* C17: every resolution miss of hover, goto_definition, completion,
\* code_actions and document_symbol is answered Ok with None (an empty list
\* for document_symbol) in an envelope that carries the warnings and the
\* compilation feedback.
MissesAreAbsentResults ==
    (Handled /\ ResolutionMiss) => AbsentInEnvelope

\* The same for the URIs that are file paths, and for all URIs where the
\* target has no Url::to_file_path: these misses are all answered with the
\* absent result.
FilePathMissesAreAbsentResults ==
    (Handled /\ ResolutionMiss /\ (request.uri.scheme = "file" \/ request.target # "unix"))
        => AbsentInEnvelope

\* Where Url::to_file_path exists, a request for a document whose URI is no
\* file path ends in the panic of module_for_uri, whatever its kind.
NonFileUriPanics ==
    (Handled /\ request.uri \in NonFileUris /\ request.target = "unix")
        => answer = Panicked

====
